---- MODULE Spec2Model ----
(***************************************************************************)
(* A model of trlx: the train dispatcher (trlx/trlx.py) and the random     *)
(* walks benchmark (examples/randomwalks.py): graph generation, walk       *)
(* sampling, the shortest path table and the scoring closure metric_fn.    *)
(***************************************************************************)
EXTENDS Integers, Sequences, FiniteSets, TLC

\* ------------------------------------------------------------------ bounds
MaxNodes == 3

MaxLength == 3

MaxWalks == 1

MaxStrLen == 3

MaxItems == 2

MaxBatch == 2

\* ------------------------------------------------------- program constants
\* metric_fn: infty = 100, the length of an invalid or a not found path
infty == 100

\* metric_fn: char_to_node.get(c, 1000), the index of an unknown character
UnknownNode == 1000

\* generate_random_walks: goal = 0
goal == 0

\* Python's None, kept apart from every list of the model
None == <<"None">>

VARIABLES
    \* generate_random_walks
    pc,               \* position in generate_random_walks
    n_nodes,          \* argument
    max_length,       \* argument
    n_walks,          \* argument
    gpt2_tokenizer,   \* argument
    adj,              \* the adjacency matrix, as the set of its true entries <<i, j>>
    walk,             \* the walk being sampled, a sequence of nodes
    node,             \* the current node of the walk being sampled
    istep,            \* the inner loop's counter
    sample_walks,     \* the encoded walks, a sequence of strings
    best_lengths,     \* the shortest path table, a sequence of n_nodes - 1 lengths
    eval_prompts,     \* the evaluation prompts returned
    metric_samples,   \* metric_fn's argument
    metric_result,    \* what metric_fn returned or raised
    \* train
    tpc,              \* position in train
    reward_fn,        \* argument: TRUE when a reward function is given
    dataset,          \* argument: None or <<samples, rewards>>
    samples,          \* argument: None or a list
    rewards,          \* argument: None or a list
    prompts,          \* argument: None or a list
    t_eval_prompts,   \* argument: None or a list
    batch_size,       \* config.train.batch_size * WORLD_SIZE
    events,           \* the calls train has made on its collaborators, in order
    store,            \* trainer.store
    raised            \* None or the ValueError train raised

gvars == <<pc, n_nodes, max_length, n_walks, gpt2_tokenizer, adj, walk, node, istep,
           sample_walks, best_lengths, eval_prompts, metric_samples, metric_result>>

tvars == <<tpc, reward_fn, dataset, samples, rewards, prompts, t_eval_prompts,
           batch_size, events, store, raised>>

vars == <<gvars, tvars>>

\* ------------------------------------------------------------ the alphabet
Letters == <<"a", "b", "c", "d", "e", "f", "g", "h">>

\* node_to_char = {ix: chr(ix + ord("a")) for ix in range(n_nodes)}
node_to_char(ix) == Letters[ix + 1]

Nodes(n) == 0 .. (n - 1)

\* char_to_node.get(c, 1000) with char_to_node = {chr(ix + ord("a")): ix ...}
char_to_node_get(n, c) ==
    IF \E ix \in Nodes(n) : Letters[ix + 1] = c
    THEN CHOOSE ix \in Nodes(n) : Letters[ix + 1] = c
    ELSE UnknownNode

\* ---------------------------------------------------------- graph generation
\* adj[i, j] of the numpy matrix
Edge(a, i, j) == <<i, j>> \in a

\* np.nonzero(adj[node])[0]
Neighbors(a, n, i) == {j \in Nodes(n) : Edge(a, i, j)}

\* rng.rand(n, n) > 1 - p_edge followed by np.fill_diagonal(adj, 0):
\* every matrix with a zero diagonal can come out
Candidates(n) == SUBSET {e \in Nodes(n) \X Nodes(n) : e[1] # e[2]}

\* np.all(adj.sum(1)): every row has a true entry
AllRowsNonzero(a, n) == \A i \in Nodes(n) : Neighbors(a, n, i) # {}

\* the fixup with the column of node 0 cleared in place of its row
TerminalFixupColumn(a) == {e \in a : e[2] # 0} \cup {<<0, 0>>}

\* adj[0, :] = 0; adj[0, 0] = 1
TerminalFixup(a) == {e \in a : e[1] # 0} \cup {<<0, 0>>}

\* the while True loop of lines 23-27, up to its break
GenerateAdj ==
    /\ pc = "adj"
    /\ \E m \in Candidates(n_nodes) :
        /\ AllRowsNonzero(m, n_nodes)
        /\ adj' = m
    /\ pc' = "fixup"
    /\ UNCHANGED <<n_nodes, max_length, n_walks, gpt2_tokenizer, walk, node, istep,
                   sample_walks, best_lengths, eval_prompts, metric_samples,
                   metric_result>>
    /\ UNCHANGED tvars

\* the terminal state: lines 30-31
FixTerminal ==
    /\ pc = "fixup"
    /\ adj' = TerminalFixup(adj)
    /\ pc' = "walks"
    /\ UNCHANGED <<n_nodes, max_length, n_walks, gpt2_tokenizer, walk, node, istep,
                   sample_walks, best_lengths, eval_prompts, metric_samples,
                   metric_result>>
    /\ UNCHANGED tvars

\* ------------------------------------------------------------ walk sampling
\* randexclude(rng, n, exclude): the values its loop can return
randexclude(n, exclude) == {x \in Nodes(n) : x # exclude}

\* the inner loop running range(max_length) times
WalkStepsOffByOne(ml) == IF ml > 0 THEN ml ELSE 0

\* range(max_length - 1): the number of iterations of the inner loop
WalkSteps(ml) == IF ml - 1 > 0 THEN ml - 1 ELSE 0

\* [node_to_char[ix] for ix in walk], "|" inserted at index 1 for gpt2_tokenizer
EncodeWalk(w, tok) ==
    LET chars == [i \in 1 .. Len(w) |-> node_to_char(w[i])]
    IN IF tok THEN <<chars[1]>> \o <<"|">> \o Tail(chars) ELSE chars

\* line 38-40: the next walk starts
BeginWalk ==
    /\ pc = "walks"
    /\ Len(sample_walks) < n_walks
    /\ \E x \in randexclude(n_nodes, goal) :
        /\ node' = x
        /\ walk' = <<x>>
    /\ istep' = 0
    /\ pc' = IF WalkSteps(max_length) > 0 THEN "step" ELSE "encode"
    /\ UNCHANGED <<n_nodes, max_length, n_walks, gpt2_tokenizer, adj, sample_walks,
                   best_lengths, eval_prompts, metric_samples, metric_result>>
    /\ UNCHANGED tvars

\* lines 42-46: one iteration of the inner loop
StepWalk ==
    /\ pc = "step"
    /\ \E nxt \in Neighbors(adj, n_nodes, node) :
        /\ node' = nxt
        /\ walk' = Append(walk, nxt)
        /\ pc' = IF nxt = goal \/ istep + 1 >= WalkSteps(max_length)
                 THEN "encode" ELSE "step"
    /\ istep' = istep + 1
    /\ UNCHANGED <<n_nodes, max_length, n_walks, gpt2_tokenizer, adj, sample_walks,
                   best_lengths, eval_prompts, metric_samples, metric_result>>
    /\ UNCHANGED tvars

\* lines 50-54: the walk is encoded and stored
StoreWalk ==
    /\ pc = "encode"
    /\ sample_walks' = Append(sample_walks, EncodeWalk(walk, gpt2_tokenizer))
    /\ walk' = <<>>
    /\ node' = goal
    /\ istep' = 0
    /\ pc' = "walks"
    /\ UNCHANGED <<n_nodes, max_length, n_walks, gpt2_tokenizer, adj,
                   best_lengths, eval_prompts, metric_samples, metric_result>>
    /\ UNCHANGED tvars

\* ------------------------------------------------------- the shortest paths
\* the nodes with a directed path of at most k edges to the goal
RECURSIVE ReachWithin(_, _, _)
ReachWithin(a, n, k) ==
    IF k = 0 THEN {goal}
    ELSE LET r == ReachWithin(a, n, k - 1)
         IN r \cup {i \in Nodes(n) : \E j \in r : Edge(a, i, j)}

\* whether nx.shortest_path(g, start, goal) finds a path
HasPath(a, n, start) == start \in ReachWithin(a, n, n)

\* len(nx.shortest_path(g, start, goal)): the nodes on a shortest path
ShortestPathNodes(a, n, start) ==
    1 + CHOOSE k \in 0 .. n :
            /\ start \in ReachWithin(a, n, k)
            /\ \A h \in 0 .. (k - 1) : start \notin ReachWithin(a, n, h)

\* len(path[:max_length])
Truncate(len, ml) == IF len > ml THEN ml ELSE len

\* lines 62-66: the length recorded for one start node
BestLength(a, n, ml, start) ==
    IF HasPath(a, n, start)
    THEN Truncate(ShortestPathNodes(a, n, start), ml)
    ELSE ml

\* lines 59-68: for start in set(range(n_nodes)) - {goal}, in ascending order
BestLengths(a, n, ml) == [i \in 1 .. (n - 1) |-> BestLength(a, n, ml, i)]

\* sorted(set(...)) over single letters
SortedLetters(S) == SelectSeq(Letters, LAMBDA c : c \in S)

\* lines 114-116
EvalPrompts(ws, tok) ==
    LET firsts == SortedLetters({ws[i][1] : i \in 1 .. Len(ws)})
    IN [i \in 1 .. Len(firsts) |-> IF tok THEN <<firsts[i], "|">> ELSE <<firsts[i]>>]

\* lines 56-68 and 112-118: the sampling loop is over, the table is built and
\* generate_random_walks returns
ShortestPaths ==
    /\ pc = "walks"
    /\ Len(sample_walks) = n_walks
    /\ best_lengths' = BestLengths(adj, n_nodes, max_length)
    /\ eval_prompts' = EvalPrompts(sample_walks, gpt2_tokenizer)
    /\ pc' = "ready"
    /\ UNCHANGED <<n_nodes, max_length, n_walks, gpt2_tokenizer, adj, walk, node, istep,
                   sample_walks, metric_samples, metric_result>>
    /\ UNCHANGED tvars

\* ---------------------------------------------------------------- metric_fn
\* s.replace("|", "")
StripBar(s) == SelectSeq(s, LAMBDA c : c # "|")

\* line 80
Decode(n, s) == [i \in 1 .. Len(s) |-> char_to_node_get(n, s[i])]

\* lines 81-92: the scan breaks at the first 0-based position ix that holds a
\* nonexisting step (length infty) or the goal (length ix + 1); a scan that
\* runs off the end leaves length None, which line 92 turns into infty
ScanLength(a, n, s) ==
    LET Nonexisting(ix) == s[ix + 1] >= n \/ (ix > 0 /\ ~Edge(a, s[ix], s[ix + 1]))
        Breaks(ix) == Nonexisting(ix) \/ s[ix + 1] = 0
        breaks == {ix \in 0 .. (Len(s) - 1) : Breaks(ix)}
    IN IF breaks = {} THEN infty
       ELSE LET first == CHOOSE ix \in breaks : \A j \in breaks : ix <= j
            IN IF Nonexisting(first) THEN infty ELSE first + 1

\* whether best_lengths[s[0] - 1] raises IndexError: s is empty, or the index
\* is outside the tensor (a negative index counts from the end)
LookupRaises(bl, s) ==
    \/ Len(s) = 0
    \/ s[1] - 1 >= Len(bl)
    \/ s[1] - 1 < 0 - Len(bl)

\* best_lengths[s[0] - 1]
Lookup(bl, s) ==
    IF s[1] - 1 >= 0 THEN bl[s[1]] ELSE bl[Len(bl) + s[1]]

\* line 99: torch.where(lengths.eq(infty), worstlen, lengths).abs()
BoundLength(len, worstlen) ==
    LET b == IF len = infty THEN worstlen ELSE len
    IN IF b < 0 THEN 0 - b ELSE b

\* line 101: torch.where(lengths.eq(infty), -1, 1 / lengths), as a fraction
ScaledReward(len) ==
    IF len = infty THEN [num |-> 0 - 1, den |-> 1] ELSE [num |-> 1, den |-> len]

\* lines 108-109, as a fraction (torch divides by zero without raising)
Optimality(len, best, worstlen) ==
    [num |-> worstlen - BoundLength(len, worstlen), den |-> worstlen - best]

\* lines 77-80
Decoded(n, tok, s) == Decode(n, IF tok THEN StripBar(s) ELSE s)

\* lines 70-110
metric_fn(a, n, ml, tok, bl, ss) ==
    LET dec == [i \in 1 .. Len(ss) |-> Decoded(n, tok, ss[i])]
        len == [i \in 1 .. Len(ss) |-> ScanLength(a, n, dec[i])]
    IN IF \E i \in 1 .. Len(ss) : LookupRaises(bl, dec[i])
       THEN [status |-> "IndexError", rewards |-> <<>>, lengths |-> <<>>,
             optimality |-> <<>>]
       ELSE [status |-> "returned",
             rewards |-> [i \in 1 .. Len(ss) |-> ScaledReward(len[i])],
             lengths |-> len,
             optimality |->
                 [i \in 1 .. Len(ss) |-> Optimality(len[i], Lookup(bl, dec[i]), ml)]]

\* the characters a scored string is made of: the alphabet, the separator and
\* a character outside the alphabet
Chars(n) == {Letters[i] : i \in 1 .. n} \cup {"|", "?"}

\* the strings of at most k characters
StringsUpTo(n, k) == UNION {[1 .. l -> Chars(n)] : l \in 0 .. k}

\* x y x y ... of length m
Alternate(x, y, m) == [i \in 1 .. m |-> IF i % 2 = 1 THEN x ELSE y]

\* long strings: two letters alternating, then at most one more character
LongStrings(n) ==
    {Alternate(Letters[x], Letters[y], m) \o t :
        x \in 1 .. n, y \in 1 .. n, m \in {MaxStrLen, infty - 1},
        t \in StringsUpTo(n, 1)}

\* the batches scored: one string, or two short ones
Batches(n) ==
    {<<s>> : s \in StringsUpTo(n, MaxStrLen) \cup LongStrings(n)}
    \cup {<<s, t>> : s \in StringsUpTo(n, 1), t \in StringsUpTo(n, 1)}

\* a call of the closure generate_random_walks returned
Score ==
    /\ pc = "ready"
    /\ \E ss \in Batches(n_nodes) :
        /\ metric_samples' = ss
        /\ metric_result' =
               metric_fn(adj, n_nodes, max_length, gpt2_tokenizer, best_lengths, ss)
    /\ pc' = "scored"
    /\ UNCHANGED <<n_nodes, max_length, n_walks, gpt2_tokenizer, adj, walk, node, istep,
                   sample_walks, best_lengths, eval_prompts>>
    /\ UNCHANGED tvars

\* ------------------------------------------------ generate_random_walks runs
NoResult == [status |-> "none", rewards |-> <<>>, lengths |-> <<>>, optimality |-> <<>>]

GInit(walks) ==
    /\ pc = "adj"
    /\ n_nodes \in 2 .. MaxNodes
    /\ max_length \in 1 .. MaxLength
    /\ n_walks \in walks
    /\ gpt2_tokenizer \in BOOLEAN
    /\ adj = {}
    /\ walk = <<>>
    /\ node = goal
    /\ istep = 0
    /\ sample_walks = <<>>
    /\ best_lengths = <<>>
    /\ eval_prompts = <<>>
    /\ metric_samples = <<>>
    /\ metric_result = NoResult

TIdle ==
    /\ tpc = "idle"
    /\ reward_fn = FALSE
    /\ dataset = None
    /\ samples = None
    /\ rewards = None
    /\ prompts = None
    /\ t_eval_prompts = None
    /\ batch_size = 1
    /\ events = <<>>
    /\ store = None
    /\ raised = None

\* generate_random_walks with walks sampled
Init == GInit(1 .. MaxWalks) /\ TIdle

Next == GenerateAdj \/ FixTerminal \/ BeginWalk \/ StepWalk \/ StoreWalk \/ ShortestPaths

Spec == Init /\ [][Next]_vars

\* generate_random_walks with n_walks = 0, and the closure it returns applied
InitMetric == GInit({0}) /\ TIdle

NextMetric == GenerateAdj \/ FixTerminal \/ ShortestPaths \/ Score

SpecMetric == InitMetric /\ [][NextMetric]_vars

\* -------------------------------------------------------------------- train
\* bool(x) of an optional list
Truthy(x) == x # None /\ x # <<>>

\* the lists of at most MaxItems items x, and None
Lists(x) == {[i \in 1 .. k |-> x] : k \in 0 .. MaxItems}

OptionalLists(x) == {None} \cup Lists(x)

\* configuration values, kept symbolic
num_rollouts == "config.method.num_rollouts"

chunk_size == "config.method.chunk_size"

seq_length == "config.train.seq_length"

\* config.train.seq_length - config.method.gen_kwargs["max_new_tokens"]
max_prompt_length == "max_prompt_length"

\* trainer.tokenizer.bos_token
bos_token == "bos"

\* a call train makes, or an assignment to the trainer
Event(op, args) == [op |-> op, args |-> args]

\* [trainer.tokenizer.bos_token] * batch_size
DefaultPrompts(n) == [i \in 1 .. n |-> bos_token]

\* prompts[:batch_size]
Prefix(l, n) == SubSeq(l, 1, IF Len(l) < n THEN Len(l) ELSE n)

\* a call of train, with its arguments
TInit ==
    /\ tpc = "start"
    /\ reward_fn \in BOOLEAN
    /\ dataset \in {None} \cup (Lists("s") \X Lists("r"))
    /\ samples \in OptionalLists("s")
    /\ rewards \in OptionalLists("r")
    /\ prompts \in OptionalLists("p")
    /\ t_eval_prompts \in OptionalLists("e")
    /\ batch_size \in 1 .. MaxBatch
    /\ events = <<>>
    /\ store = None
    /\ raised = None

\* lines 49-56: the seed is set and a dataset is split into samples and rewards
\* (model_path only overrides config.model.model_path, which nothing below reads)
T_Start ==
    /\ tpc = "start"
    /\ events' = Append(events, Event("set_seed", <<>>))
    /\ IF dataset # None
       THEN samples' = dataset[1] /\ rewards' = dataset[2]
       ELSE UNCHANGED <<samples, rewards>>
    /\ tpc' = "trainer"
    /\ UNCHANGED <<reward_fn, dataset, prompts, t_eval_prompts, batch_size, store, raised>>
    /\ UNCHANGED gvars

\* lines 58-67: the trainer is constructed
T_GetTrainer ==
    /\ tpc = "trainer"
    /\ events' = Append(events, Event("get_trainer", <<>>))
    /\ tpc' = "dispatch"
    /\ UNCHANGED <<reward_fn, dataset, samples, rewards, prompts, t_eval_prompts,
                   batch_size, store, raised>>
    /\ UNCHANGED gvars

\* the online branch without its make_experience call
T_OnlineSkipsExperience ==
    /\ tpc = "dispatch"
    /\ reward_fn
    /\ LET ps == IF Truthy(prompts) THEN prompts ELSE DefaultPrompts(batch_size)
       IN /\ prompts' = ps
          /\ t_eval_prompts' =
                 IF t_eval_prompts = None THEN Prefix(ps, batch_size) ELSE t_eval_prompts
          /\ events' = events \o
                 << Event("get_pipeline", <<ps, max_prompt_length>>),
                    Event("get_orchestrator", <<"trainer", "pipeline", chunk_size>>) >>
    /\ tpc' = "eval"
    /\ UNCHANGED <<reward_fn, dataset, samples, rewards, batch_size, store, raised>>
    /\ UNCHANGED gvars

\* lines 70-78: online training against a reward function
T_Online ==
    /\ tpc = "dispatch"
    /\ reward_fn
    /\ LET ps == IF Truthy(prompts) THEN prompts ELSE DefaultPrompts(batch_size)
       IN /\ prompts' = ps
          /\ t_eval_prompts' =
                 IF t_eval_prompts = None THEN Prefix(ps, batch_size) ELSE t_eval_prompts
          /\ events' = events \o
                 << Event("get_pipeline", <<ps, max_prompt_length>>),
                    Event("get_orchestrator", <<"trainer", "pipeline", chunk_size>>),
                    Event("make_experience", <<num_rollouts>>) >>
    /\ tpc' = "eval"
    /\ UNCHANGED <<reward_fn, dataset, samples, rewards, batch_size, store, raised>>
    /\ UNCHANGED gvars

\* lines 81-93: offline training from the collected samples
T_Offline ==
    /\ tpc = "dispatch"
    /\ ~reward_fn
    /\ Truthy(samples)
    /\ IF Truthy(rewards) /\ Len(samples) # Len(rewards)
       THEN /\ raised' = <<"ValueError", "Number of samples should match the number of rewards",
                           Len(samples), Len(rewards)>>
            /\ tpc' = "raised"
            /\ UNCHANGED <<t_eval_prompts, events, store>>
       ELSE /\ t_eval_prompts' =
                   IF t_eval_prompts = None THEN DefaultPrompts(batch_size)
                   ELSE t_eval_prompts
            /\ IF Truthy(rewards)
               THEN /\ events' = events \o
                          << Event("get_orchestrator", <<"trainer">>),
                             Event("make_experience", <<samples, rewards, seq_length>>) >>
                    /\ UNCHANGED store
               ELSE /\ events' = events \o
                          << Event("get_pipeline", <<samples, max_prompt_length>>),
                             Event("set_store", <<samples>>) >>
                    /\ store' = <<"pipeline", samples>>
            /\ tpc' = "eval"
            /\ UNCHANGED raised
    /\ UNCHANGED <<reward_fn, dataset, samples, rewards, prompts, batch_size>>
    /\ UNCHANGED gvars

\* lines 95-96: neither a reward function nor samples
T_Invalid ==
    /\ tpc = "dispatch"
    /\ ~reward_fn
    /\ ~Truthy(samples)
    /\ raised' = <<"ValueError", "Either samples or reward_fn should be given for training">>
    /\ tpc' = "raised"
    /\ UNCHANGED <<reward_fn, dataset, samples, rewards, prompts, t_eval_prompts,
                   batch_size, events, store>>
    /\ UNCHANGED gvars

\* lines 98-99: the evaluation pipeline is built and attached
T_Eval ==
    /\ tpc = "eval"
    /\ events' = events \o
           << Event("get_pipeline", <<t_eval_prompts, max_prompt_length>>),
              Event("add_eval_pipeline", <<"eval_pipeline">>) >>
    /\ tpc' = "learn"
    /\ UNCHANGED <<reward_fn, dataset, samples, rewards, prompts, t_eval_prompts,
                   batch_size, store, raised>>
    /\ UNCHANGED gvars

\* lines 101-102: the learning loop runs and the trainer is returned
T_Learn ==
    /\ tpc = "learn"
    /\ events' = events \o << Event("learn", <<>>), Event("return", <<"trainer">>) >>
    /\ tpc' = "returned"
    /\ UNCHANGED <<reward_fn, dataset, samples, rewards, prompts, t_eval_prompts,
                   batch_size, store, raised>>
    /\ UNCHANGED gvars

GIdle == GInit({0}) /\ n_nodes = 2 /\ max_length = 1 /\ gpt2_tokenizer = FALSE

InitTrain == TInit /\ GIdle

NextTrain == T_Start \/ T_GetTrainer \/ T_Online \/ T_Offline \/ T_Invalid \/ T_Eval \/ T_Learn

SpecTrain == InitTrain /\ [][NextTrain]_vars

\* =================================================================== claims
\* the positions of the events with this name
Ops(op) == {i \in 1 .. Len(events) : events[i].op = op}

Count(op) == Cardinality(Ops(op))

\* the positions at which a trainer, a pipeline or an orchestrator is constructed
Constructions == Ops("get_trainer") \cup Ops("get_pipeline") \cup Ops("get_orchestrator")

\* the positions at which the branch specific setup ends
Setups == Ops("make_experience") \cup Ops("set_store")

IsValueError == raised # None /\ raised[1] = "ValueError"

\* C1: when train is called with neither reward_fn nor samples and no dataset,
\* it raises a configuration error and nothing was constructed before it
C1_NoConstructionBeforeError ==
    (tpc = "raised" /\ ~reward_fn /\ ~Truthy(samples) /\ dataset = None)
        => (IsValueError /\ Constructions = {})

\* C2: when both reward_fn and a non-empty samples list are supplied, train
\* fails with a configuration error; make_experience and learn are not invoked
C2_BothGivenFails ==
    (tpc # "start" /\ reward_fn /\ Truthy(samples))
        => /\ Ops("make_experience") = {}
           /\ Ops("learn") = {}
           /\ tpc # "returned"
           /\ tpc = "raised" => IsValueError

\* C3: with reward_fn absent, samples non-empty and a rewards list of any
\* length (the empty list included) with len(samples) # len(rewards), train
\* raises an error reporting both lengths; make_experience, the assignment of
\* trainer.store and learn are not executed
C3_LengthMismatchFails ==
    (tpc # "start" /\ ~reward_fn /\ Truthy(samples) /\ rewards # None
        /\ Len(samples) # Len(rewards))
        => /\ Ops("make_experience") = {}
           /\ Ops("set_store") = {}
           /\ store = None
           /\ Ops("learn") = {}
           /\ tpc \notin {"eval", "learn", "returned"}
           /\ tpc = "raised" =>
                  /\ IsValueError
                  /\ Len(raised) = 4
                  /\ raised[3] = Len(samples)
                  /\ raised[4] = Len(rewards)

\* the decoded form of the i-th scored sample
DecodedSample(i) == Decoded(n_nodes, gpt2_tokenizer, metric_samples[i])

\* C4: a sample with a character outside the alphabet at any position,
\* position 0 included, is scored without aborting, with length infty and
\* reward -1. The scan ends at the goal, so the claim is stated for the
\* characters the scan can meet: no goal node stands before the character
C4_UnknownCharIsInvalid ==
    pc = "scored" =>
        \A i \in 1 .. Len(metric_samples) :
            (\E p \in 1 .. Len(DecodedSample(i)) :
                /\ DecodedSample(i)[p] >= n_nodes
                /\ \A q \in 1 .. (p - 1) : DecodedSample(i)[q] # goal)
                => /\ metric_result.status = "returned"
                   /\ metric_result.lengths[i] = infty
                   /\ metric_result.rewards[i] = [num |-> 0 - 1, den |-> 1]

\* the decoded nodes of s are nodes of the graph and follow its edges
FollowsEdges(s) ==
    /\ \A p \in 1 .. Len(s) : s[p] < n_nodes
    /\ \A p \in 1 .. (Len(s) - 1) : Edge(adj, s[p], s[p + 1])

\* s first hits the goal at 1-based position k
FirstGoalAt(s, k) ==
    /\ k \in 1 .. Len(s)
    /\ s[k] = goal
    /\ \A p \in 1 .. (k - 1) : s[p] # goal

\* C5: a sample whose decoded nodes follow existing edges and first hit the
\* goal at position k >= 1 gets length k and reward 1/k (in a call that
\* returns: such a sample raises nothing itself)
C5_ReachedLengthAndReward ==
    (pc = "scored" /\ metric_result.status = "returned") =>
        \A i \in 1 .. Len(metric_samples) :
            \A k \in 1 .. Len(DecodedSample(i)) :
                (FollowsEdges(DecodedSample(i)) /\ FirstGoalAt(DecodedSample(i), k))
                    => /\ metric_result.lengths[i] = k
                       /\ metric_result.rewards[i] = [num |-> 1, den |-> k]

\* C6: for every non-terminal node from which the goal is reachable, the
\* length in best_lengths is strictly less than max_length
C6_OracleBelowWorst ==
    pc \in {"ready", "scored"} =>
        \A start \in Nodes(n_nodes) \ {goal} :
            HasPath(adj, n_nodes, start) => best_lengths[start] < max_length

\* C7: for every sample whose first character decodes to a non-terminal node,
\* 0 <= worstlen - bounded_length <= worstlen - oracle_length
C7_OptimalityInUnitInterval ==
    (pc = "scored" /\ metric_result.status = "returned") =>
        \A i \in 1 .. Len(metric_samples) :
            (Len(DecodedSample(i)) > 0 /\ DecodedSample(i)[1] \in Nodes(n_nodes) \ {goal})
                => /\ 0 <= metric_result.optimality[i].num
                   /\ metric_result.optimality[i].num <= metric_result.optimality[i].den

\* every non-terminal node has an outgoing edge and node 0 has its self-loop only
GraphShape(a, n) ==
    /\ \A i \in Nodes(n) \ {0} : Neighbors(a, n, i) # {}
    /\ Neighbors(a, n, 0) = {0}

\* C8: every accepted and fixed up matrix has an outgoing edge at each
\* non-terminal node and exactly the self-loop at node 0, and the fixup of
\* row 0 leaves every other row unchanged
C8_FixedGraphShape ==
    [][ /\ pc' \notin {"adj", "fixup"} => GraphShape(adj', n_nodes')
        /\ (pc = "fixup" /\ pc' # "fixup") =>
               \A i \in Nodes(n_nodes) \ {0} :
                   Neighbors(adj', n_nodes, i) = Neighbors(adj, n_nodes, i) ]_vars

\* a fixed up graph of the largest size in which some node has two outgoing edges
C8_Witness ==
    /\ pc = "walks"
    /\ n_nodes = MaxNodes
    /\ Neighbors(adj, n_nodes, 0) = {0}
    /\ \E i \in Nodes(n_nodes) \ {0} : Cardinality(Neighbors(adj, n_nodes, i)) > 1

\* C9: a sampled walk has between 1 and max_length nodes, starts at a
\* non-terminal node, follows edges of the graph, holds the goal only as its
\* last node, and ends at the goal when it is shorter than max_length
C9_WalkShape ==
    pc = "encode" =>
        /\ Len(walk) >= 1
        /\ Len(walk) <= max_length
        /\ walk[1] # goal
        /\ \A i \in 1 .. (Len(walk) - 1) :
               /\ Edge(adj, walk[i], walk[i + 1])
               /\ walk[i] # goal
        /\ Len(walk) < max_length => walk[Len(walk)] = goal

\* a finished walk of more than one node that stopped early, at the goal
C9_Witness ==
    /\ pc = "encode"
    /\ Len(walk) > 1
    /\ Len(walk) < max_length
    /\ walk[Len(walk)] = goal

\* the only event with this name
The(op) == events[CHOOSE i \in Ops(op) : TRUE]

\* C10: in an execution of train that does not raise, the branch specific
\* setup (online: one make_experience(num_rollouts) on the (trainer, pipeline,
\* chunk_size) orchestrator; offline with rewards: one make_experience(samples,
\* rewards, seq_length); offline without rewards: trainer.store assigned and no
\* orchestrator) is followed by one add_eval_pipeline, then by one learn, and
\* the trainer is returned; learn never comes before the setup or the attachment
C10_TrainOrder ==
    /\ \A i \in Ops("learn") :
           \E j \in Ops("add_eval_pipeline") : j < i /\ \E k \in Setups : k < j
    /\ \A j \in Ops("add_eval_pipeline") : \E k \in Setups : k < j
    /\ tpc = "returned" =>
        /\ Count("add_eval_pipeline") = 1
        /\ Count("learn") = 1
        /\ Count("return") = 1
        /\ Cardinality(Setups) = 1
        /\ Ops("return") = {Len(events)}
        /\ Ops("learn") = {Len(events) - 1}
        /\ The("return").args = <<"trainer">>
        /\ raised = None
        /\ reward_fn =>
               /\ Count("make_experience") = 1
               /\ Len(The("make_experience").args) = 1
               /\ The("make_experience").args[1] = num_rollouts
               /\ Count("get_orchestrator") = 1
               /\ Len(The("get_orchestrator").args) = 3
               /\ The("get_orchestrator").args = <<"trainer", "pipeline", chunk_size>>
               /\ \A o \in Ops("get_orchestrator") : \A m \in Ops("make_experience") : o < m
        /\ (~reward_fn /\ Truthy(rewards)) =>
               /\ Count("make_experience") = 1
               /\ Len(The("make_experience").args) = 3
               /\ The("make_experience").args = <<samples, rewards, seq_length>>
               /\ Count("get_orchestrator") = 1
               /\ Len(The("get_orchestrator").args) = 1
        /\ (~reward_fn /\ ~Truthy(rewards)) =>
               /\ Count("set_store") = 1
               /\ store = <<"pipeline", samples>>
               /\ Count("get_orchestrator") = 0
               /\ Count("make_experience") = 0

\* train has returned from the online branch
C10_Witness ==
    /\ tpc = "returned"
    /\ reward_fn
    /\ Count("make_experience") = 1
    /\ Count("learn") = 1

====
